---- MODULE Spec2Model ----
(***************************************************************************)
(* Model of the zip-code radius tool (src/src/components/MapContainer.tsx, *)
(* second component, lines 327-1328, and src/src/data/zipCodeDatabase.ts). *)
(*                                                                         *)
(* Geometry.  Every modelled point lies on one meridian (lng = 0).  There  *)
(* the haversine term cos(lat1)*cos(lat2)*sin^2(dLng/2) vanishes, so       *)
(* a = sin^2(dLat/2), c = |dLat| (radians) and calculateDistance returns   *)
(* R*|dLat|.  Latitudes are counted in units of 180/(3959*pi) degrees      *)
(* (one mile of arc), which makes R*|dLat| the integer |lat2 - lat1|.      *)
(* Math.atan2 is modelled on the axes only, where its value is exact.      *)
(*                                                                         *)
(* SpecCore runs the computations of the component that depend on nothing  *)
(* but their inputs: calculateViewportSplit (with the branch the component *)
(* renders for its result), the search block of handleSearch,              *)
(* calculateDistance and createCircle.  The initial states range over the  *)
(* inputs; one action applies each.  The component stays as mounted.       *)
(*                                                                         *)
(* Spec runs the mounted component: the asynchronous load of the dataset,  *)
(* the radius slider, the viewport-mode radio group, the Search button     *)
(* with the awaits of handleSearch, and the setTimeout callbacks that      *)
(* (re)create the maps, draw the radius visualisation and update the zoom. *)
(* A handler works on the state of the render that created it, and the     *)
(* callbacks it schedules keep that state however the component's state    *)
(* changes before they fire.  The catch block of handleSearch is not       *)
(* modelled: nothing in the modelled try block throws.  SpecOverlap is     *)
(* Spec with a user who does not wait for the callbacks of a handler       *)
(* before starting the next.  SpecFair is the component with a user who   *)
(* only searches and a geocoder that answers every request.                *)
(***************************************************************************)
EXTENDS Integers, Sequences, FiniteSets, TLC

VARIABLES
  call,    \* the computation and its inputs
  done,    \* whether it has returned
  result,  \* what it returned
  \* zipCodeDatabase.ts
  zipCodeDatabase,    \* `export let zipCodeDatabase`
  databaseLoad,       \* the promise of loadZipCodeDatabase()
  \* state of MapContainer
  radius,             \* radius[0]
  foundZipCodes,
  isLoading,
  seedCoordinates,
  mapSplit,
  forceViewportMode,
  \* what is in progress
  search,             \* the invocation of handleSearch between its awaits
  toasts,             \* toasts of the latest invocation of handleSearch
  timers,             \* pending setTimeout chains, oldest first
  maps,               \* maps.current
  liveMaps            \* map instances created and not removed

coreVars == <<call, done, result>>

componentVars ==
  <<zipCodeDatabase, databaseLoad, radius, foundZipCodes, isLoading,
    seedCoordinates, mapSplit, forceViewportMode, search, toasts, timers,
    maps, liveMaps>>

vars == <<call, done, result, zipCodeDatabase, databaseLoad, radius,
          foundZipCodes, isLoading, seedCoordinates, mapSplit,
          forceViewportMode, search, toasts, timers, maps, liveMaps>>

(* ------------------------------ bounds -------------------------------- *)

\* Longest seed list handed to the layout decision and to the search.
MaxSeeds == 3

(* ------------------------- program constants -------------------------- *)

\* `if (distance < 30)` in calculateViewportSplit.
AutoSingleBelow == 30

\* `splitPercentage: 50, // Split in half`.
SplitInHalf == 50

\* Slider min={1} max={50}.
SliderMin == 1

SliderMax == 50

(* ------------------------------ the world ----------------------------- *)

Modes == {"auto", "single", "split"}

\* The absent optional argument `overrideMode?`.
Undefined == "undefined"

\* Places a seed label can resolve to: { zipCode, lat, lng }.
Place(z, la) == [zipCode |-> z, lat |-> la, lng |-> 0]

SeedPlaces ==
  { Place("A", 0), Place("B", 5), Place("C", 30), Place("D", 60),
    Place("E", 505) }

SeedLists == UNION { [1..n -> SeedPlaces] : n \in 0..MaxSeeds }

\* A ZipCodeData record of the reference dataset (the fields the component
\* reads).
ZipCodeData(z, la, pop) ==
  [zipCode |-> z, lat |-> la, lng |-> 0, population |-> pop]

\* The loaded dataset (data.zipCodes), one record per zip code, in file
\* order.
LoadedZipCodes ==
  << ZipCodeData("C", 30, 300), ZipCodeData("A", 0, 100),
     ZipCodeData("R", 55, 550), ZipCodeData("E", 505, 700),
     ZipCodeData("B", 5, 200), ZipCodeData("Q", 36, 360),
     ZipCodeData("D", 60, 600), ZipCodeData("P", 10, 150) >>

\* `export let zipCodeDatabase: ZipCodeData[] = []` until the load resolves.
Databases == { << >>, LoadedZipCodes }

\* Positions of the radius slider.
Radii == { SliderMin, 5, 30, SliderMax }

(* --------------------------- pure functions --------------------------- *)

Abs(x) == IF x < 0 THEN -x ELSE x

\* Variant of calculateDistance: the difference of the latitudes with its
\* sign, as if the haversine were not built from squares.
calculateDistanceSigned(lat1, lng1, lat2, lng2) ==
  CASE lng1 = lng2 -> lat2 - lat1

\* calculateDistance: haversine, in miles (see the header for the unit).
\* a = sin^2(dLat/2) and c = 2*atan2(sqrt(a), sqrt(1-a)) make the result
\* the absolute value of the latitude difference.
calculateDistance(lat1, lng1, lat2, lng2) ==
  CASE lng1 = lng2 -> Abs(lat2 - lat1)

\* Math.atan2(dy, dx) in degrees, on the axes.
atan2Degrees(dy, dx) ==
  CASE dx = 0 /\ dy = 0 -> 0
    [] dx = 0 /\ dy > 0 -> 90
    [] dx = 0 /\ dy < 0 -> -90
    [] dx > 0 /\ dy = 0 -> 0
    [] dx < 0 /\ dy = 0 -> 180

\* `return null` of calculateViewportSplit.
NullSplit == [isNull |-> TRUE]

\* `overrideMode || forceViewportMode`.
currentModeOf(overrideMode, modeInState) ==
  IF overrideMode = Undefined THEN modeInState ELSE overrideMode

\* `{ useSingleMap: true, distance }`.
singleMapSplit(distance) == [useSingleMap |-> TRUE, distance |-> distance]

\* The split object of the two-seed case: angle of the line between the
\* seeds, rotated by 90 degrees, in degrees; splitPercentage 50.
twoWaySplit(seed1, seed2, distance) ==
  LET dx == seed2.lng - seed1.lng
      dy == seed2.lat - seed1.lat
      angleDegrees == atan2Degrees(dy, dx) + 90
  IN  [useSingleMap |-> FALSE, angle |-> angleDegrees,
       splitPercentage |-> SplitInHalf, distance |-> distance]

\* Variant of autoUsesSingleMap: the threshold taken inclusively.
autoUsesSingleMapInclusive(distance) == distance <= AutoSingleBelow

\* Auto mode, two seeds: `if (distance < 30)`.
autoUsesSingleMap(distance) == distance < AutoSingleBelow

\* `if (seeds.length === 1) return { useSingleMap: true, distance: 0 }`.
oneSeedSplit == [useSingleMap |-> TRUE, distance |-> 0]

\* Variant of manySeedsSplit: the single-map request is never honoured.
manySeedsSplitAlwaysGrid(currentMode) ==
  [useSingleMap |-> FALSE, distance |-> 0]

\* Variant of manySeedsSplit: every forced mode is taken for Single.
manySeedsSplitAnyForced(currentMode) ==
  IF currentMode # "auto"
  THEN [useSingleMap |-> TRUE, distance |-> 0]
  ELSE [useSingleMap |-> FALSE, distance |-> 0]

\* Variant of manySeedsSplit: Auto shares one map, as it does for two
\* close seeds.
manySeedsSplitAutoSingle(currentMode) ==
  IF currentMode = "split"
  THEN [useSingleMap |-> FALSE, distance |-> 0]
  ELSE [useSingleMap |-> TRUE, distance |-> 0]

\* `if (seeds.length > 2) { ... }`: single map on request, else grid view.
manySeedsSplit(currentMode) ==
  IF currentMode = "single"
  THEN [useSingleMap |-> TRUE, distance |-> 0]
  ELSE [useSingleMap |-> FALSE, distance |-> 0]

\* Variant of twoSeedsSplit: the distance rule decides before the manual
\* override is looked at.
twoSeedsSplitDistanceFirst(seed1, seed2, currentMode) ==
  LET distance ==
        calculateDistance(seed1.lat, seed1.lng, seed2.lat, seed2.lng)
  IN  IF autoUsesSingleMap(distance) THEN singleMapSplit(distance)
      ELSE IF currentMode = "single" THEN singleMapSplit(distance)
      ELSE twoWaySplit(seed1, seed2, distance)

\* Exactly two seeds: manual override first, then the distance rule.
twoSeedsSplit(seed1, seed2, currentMode) ==
  LET distance ==
        calculateDistance(seed1.lat, seed1.lng, seed2.lat, seed2.lng)
  IN  IF currentMode = "single" THEN singleMapSplit(distance)
      ELSE IF currentMode = "split" THEN twoWaySplit(seed1, seed2, distance)
      ELSE IF autoUsesSingleMap(distance) THEN singleMapSplit(distance)
      ELSE twoWaySplit(seed1, seed2, distance)

\* Variant of calculateViewportSplit: no early return for a single seed.
calculateViewportSplitNoEmptyCase(seeds, overrideMode, modeInState) ==
  IF Len(seeds) <= 1 THEN oneSeedSplit
  ELSE IF Len(seeds) > 2
       THEN manySeedsSplit(currentModeOf(overrideMode, modeInState))
  ELSE twoSeedsSplit(seeds[1], seeds[2],
                     currentModeOf(overrideMode, modeInState))

calculateViewportSplitNoOneSeedCase(seeds, overrideMode, modeInState) ==
  IF Len(seeds) = 0 THEN NullSplit
  ELSE LET currentMode == currentModeOf(overrideMode, modeInState)
       IN  IF Len(seeds) # 2 THEN manySeedsSplit(currentMode)
           ELSE twoSeedsSplit(seeds[1], seeds[2], currentMode)

calculateViewportSplit(seeds, overrideMode, modeInState) ==
  IF Len(seeds) = 0 THEN NullSplit
  ELSE LET currentMode == currentModeOf(overrideMode, modeInState)
       IN  IF Len(seeds) = 1 THEN oneSeedSplit
           ELSE IF Len(seeds) > 2 THEN manySeedsSplit(currentMode)
           ELSE twoSeedsSplit(seeds[1], seeds[2], currentMode)

\* `mapSplit?.useSingleMap`.
usesSingleMap(split) ==
  "useSingleMap" \in DOMAIN split /\ split.useSingleMap

\* The JSX branch that renders the map area, and the map containers
\* (mapRefs) it mounts.
renderedView(seeds, split) ==
  IF Len(seeds) = 0 THEN [view |-> "default", containers |-> 1]
  ELSE IF usesSingleMap(split) THEN [view |-> "single", containers |-> 1]
  ELSE IF Len(seeds) = 2 /\ split # NullSplit
       THEN [view |-> "split", containers |-> 2]
  ELSE [view |-> "grid", containers |-> Len(seeds)]

\* The seeds (by position in the list) that share a map: handleSearch and
\* handleViewportModeChange call initializeSingleMap, which puts every seed
\* on maps.current[0], when the split says useSingleMap, and initializeMaps,
\* which gives every seed a map of its own, otherwise.
viewportGroups(seeds, split) ==
  IF usesSingleMap(split) THEN { DOMAIN seeds } \ { {} }
  ELSE { {i} : i \in DOMAIN seeds }

(* -------------- seed clustering as the specification states it --------- *)

\* The clusters of section 4.4: the connected components of the graph on
\* the seeds (by position) with an edge between seeds whose distance is at
\* most the threshold.
ConnectedComponents(seeds, threshold) ==
  LET Linked(a, b) ==
        calculateDistance(a.lat, a.lng, b.lat, b.lng) <= threshold
      RECURSIVE grow(_)
      grow(S) ==
        LET T == S \cup { j \in DOMAIN seeds :
                            \E k \in S : Linked(seeds[k], seeds[j]) }
        IN  IF T = S THEN S ELSE grow(T)
  IN  { grow({i}) : i \in DOMAIN seeds }

(* ------------------------- the radius search -------------------------- *)

\* Variant of withinRadius: the radius taken exclusively.
withinRadiusExclusive(seedCoord, zipData, radiusInMiles) ==
  calculateDistance(seedCoord.lat, seedCoord.lng, zipData.lat, zipData.lng)
    < radiusInMiles

\* `return distance <= radiusInMiles` of the filter callback.
withinRadius(seedCoord, zipData, radiusInMiles) ==
  calculateDistance(seedCoord.lat, seedCoord.lng, zipData.lat, zipData.lng)
    <= radiusInMiles

\* `zipCodeDatabase.filter(...)` for one seed.
zipCodesForThisSeed(seedCoord, database, radiusInMiles) ==
  SelectSeq(database,
            LAMBDA zipData : withinRadius(seedCoord, zipData, radiusInMiles))

Range(seq) == { seq[i] : i \in DOMAIN seq }

\* Variant of setAdd: Array.prototype.push, which keeps repeats.
setAddAsPush(set, value) == Append(set, value)

\* Set.prototype.add on a Set kept in insertion order.
setAdd(set, value) ==
  IF value \in Range(set) THEN set ELSE Append(set, value)

\* `zipCodesForThisSeed.forEach(zipData => { add; set })` on the pair
\* (allFoundZipCodes, zipCodeDetails).
RECURSIVE recordMatches(_, _)
recordMatches(acc, matches) ==
  IF matches = << >> THEN acc
  ELSE LET zipData == Head(matches)
       IN  recordMatches(
             [allFoundZipCodes |-> setAdd(acc.allFoundZipCodes, zipData.zipCode),
              zipCodeDetails |->
                (zipData.zipCode :> zipData) @@ acc.zipCodeDetails],
             Tail(matches))

\* `newSeedCoordinates.forEach(seedCoord => { ... })`.
RECURSIVE forEachSeed(_, _, _, _)
forEachSeed(acc, seeds, database, radiusInMiles) ==
  IF seeds = << >> THEN acc
  ELSE forEachSeed(
         recordMatches(acc, zipCodesForThisSeed(Head(seeds), database,
                                                radiusInMiles)),
         Tail(seeds), database, radiusInMiles)

\* The search block of handleSearch: zipCodesInRadius, the records that
\* setFoundZipCodes, addRadiusVisualization and the toast receive.
zipCodesInRadius(seeds, database, radiusInMiles) ==
  LET acc == forEachSeed([allFoundZipCodes |-> << >>, zipCodeDetails |-> << >>],
                         seeds, database, radiusInMiles)
  IN  [i \in DOMAIN acc.allFoundZipCodes |->
         acc.zipCodeDetails[acc.allFoundZipCodes[i]]]

\* `zipCodesInRadius.map(z => z.zipCode)`, the value of foundZipCodes.
zipCodesOf(records) == [i \in DOMAIN records |-> records[i].zipCode]

(* ------------------------- the radius circle -------------------------- *)

\* `points: number = 64`.
DefaultPoints == 64

\* The optional argument `points`, as the list of the arguments after
\* the radius: empty when it is left out, as in every call of the
\* component.
PointCounts == { << >>, <<0>>, <<1>>, <<2>>, <<3>>, <<4>>, <<DefaultPoints>> }

pointsOf(points) == IF points = << >> THEN DefaultPoints ELSE points[1]

\* coords[0] of an empty array.
UndefinedPoint == [undefined |-> TRUE]

\* The point pushed in iteration i of the loop of createCircle.  Its
\* coordinates are floating-point values of sin, cos, asin and atan2 at
\* the angle (i * 360) / points; the model keeps the point as the term
\* of what it is computed from, so that two points are equal exactly
\* when the same computation produced them.
circlePoint(center, radiusInMiles, i, points) ==
  [center |-> <<center.lng, center.lat>>, radiusInMiles |-> radiusInMiles,
   angleTimesPoints |-> i * 360, points |-> points]

RECURSIVE circleLoop(_, _, _, _, _)
circleLoop(coords, center, radiusInMiles, i, points) ==
  IF i < points
  THEN circleLoop(Append(coords, circlePoint(center, radiusInMiles, i, points)),
                  center, radiusInMiles, i + 1, points)
  ELSE coords

\* Variant of closeTheCircle: the closing point computed once more, at
\* the angle of a full turn.
closeTheCircleByFullTurn(coords, center, radiusInMiles, points) ==
  Append(coords, circlePoint(center, radiusInMiles, points, points))

\* `coords.push(coords[0]); // Close the circle`.
closeTheCircle(coords, center, radiusInMiles, points) ==
  Append(coords, IF coords = << >> THEN UndefinedPoint ELSE coords[1])

\* createCircle of addRadiusVisualization (and of the first component,
\* whose loop and closing push are the same): the ring of the polygon.
createCircle(center, radiusInMiles, points) ==
  closeTheCircle(circleLoop(<< >>, center, radiusInMiles, 0, pointsOf(points)),
                 center, radiusInMiles, pointsOf(points))

(* ------------------ the layout decision as an operation ---------------- *)

NoResult == [pending |-> TRUE]

LayoutCalls ==
  { [op |-> "layout", seeds |-> s, overrideMode |-> o, forceViewportMode |-> m] :
      s \in SeedLists, o \in Modes \cup {Undefined}, m \in Modes }

\* handleSearch reaches its search block with at least one resolved seed.
SearchCalls ==
  { [op |-> "search", seeds |-> s, radius |-> r, zipCodeDatabase |-> db] :
      s \in SeedLists \ { << >> }, r \in Radii, db \in Databases }

\* calculateDistance between two places, measured both ways.
DistanceCalls ==
  { [op |-> "distance", from |-> p, to |-> q] :
      p \in SeedPlaces, q \in SeedPlaces }

CircleCalls ==
  { [op |-> "circle", center |-> c, radius |-> r, points |-> n] :
      c \in SeedPlaces, r \in Radii, n \in PointCounts }

\* `useState([10])`.
InitialRadius == 10

\* `zoom: 4` of initializeDefaultMap.
DefaultZoom == 4

NoCircles == [drawn |-> FALSE]

\* The map initializeDefaultMap creates: centre of the US, no seeds.
DefaultMap == [shows |-> << >>, zoom |-> DefaultZoom, circles |-> NoCircles]

Idle == [pc |-> "idle"]

\* The module and the component once mounted: the dataset is being
\* fetched, the useState initial values, and the default map created by
\* the effect.
Mounted ==
  /\ zipCodeDatabase = << >>
  /\ databaseLoad = "pending"
  /\ radius = InitialRadius
  /\ foundZipCodes = << >>
  /\ isLoading = FALSE
  /\ seedCoordinates = << >>
  /\ mapSplit = NullSplit
  /\ forceViewportMode = "auto"
  /\ search = Idle
  /\ toasts = << >>
  /\ timers = << >>
  /\ maps = << DefaultMap >>
  /\ liveMaps = Len(<< DefaultMap >>)

InitCore ==
  /\ call \in LayoutCalls \cup SearchCalls \cup DistanceCalls \cup CircleCalls
  /\ done = FALSE
  /\ result = NoResult
  /\ Mounted

\* One invocation of calculateViewportSplit, and the view the component
\* renders once the seeds and the split are stored.
DecideLayout ==
  /\ call.op = "layout"
  /\ ~done
  /\ done' = TRUE
  /\ LET split == calculateViewportSplit(call.seeds, call.overrideMode,
                                         call.forceViewportMode)
     IN  result' = [split |-> split,
                    rendered |-> renderedView(call.seeds, split)]
  /\ UNCHANGED <<call, componentVars>>

\* One run of the search block of handleSearch.
RunSearch ==
  /\ call.op = "search"
  /\ ~done
  /\ done' = TRUE
  /\ LET found == zipCodesInRadius(call.seeds, call.zipCodeDatabase,
                                   call.radius)
     IN  result' = [zipCodesInRadius |-> found,
                    foundZipCodes |-> zipCodesOf(found)]
  /\ UNCHANGED <<call, componentVars>>

\* calculateDistance(from, to) and calculateDistance(to, from).
MeasureDistance ==
  /\ call.op = "distance"
  /\ ~done
  /\ done' = TRUE
  /\ result' =
       [distance |-> calculateDistance(call.from.lat, call.from.lng,
                                       call.to.lat, call.to.lng),
        reverse |-> calculateDistance(call.to.lat, call.to.lng,
                                      call.from.lat, call.from.lng)]
  /\ UNCHANGED <<call, componentVars>>

\* One call of createCircle.
DrawCircle ==
  /\ call.op = "circle"
  /\ ~done
  /\ done' = TRUE
  /\ result' = [ring |-> createCircle(call.center, call.radius, call.points)]
  /\ UNCHANGED <<call, componentVars>>

NextCore == DecideLayout \/ RunSearch \/ MeasureDistance \/ DrawCircle

SpecCore == InitCore /\ [][NextCore]_vars

(* ===================== properties of the layout decision =============== *)

LayoutDone == done /\ call.op = "layout"

\* The mode the call decides under.
CallMode ==
  IF call.overrideMode \in Modes THEN call.overrideMode
  ELSE call.forceViewportMode

SeedDistance(a, b) == calculateDistance(a.lat, a.lng, b.lat, b.lng)

\* The spec's three plan variants, read off the returned object and the
\* branch rendered for it.
IsSingleMap(r) ==
  /\ "useSingleMap" \in DOMAIN r.split /\ r.split.useSingleMap
  /\ r.rendered.view = "single"

IsSplitTwoWay(r) ==
  /\ "useSingleMap" \in DOMAIN r.split /\ ~r.split.useSingleMap
  /\ "splitPercentage" \in DOMAIN r.split
  /\ r.split.splitPercentage = SplitInHalf
  /\ "angle" \in DOMAIN r.split
  /\ r.rendered.view = "split"

IsGrid(r, n) ==
  /\ r.split = [useSingleMap |-> FALSE, distance |-> 0]
  /\ r.rendered = [view |-> "grid", containers |-> n]

\* C1: two seeds in mode Auto give SingleMap when their distance is below
\* 30 and SplitTwoWay with splitPercentage 50 otherwise; a distance of
\* exactly 30 gives SplitTwoWay.
C1_AutoTwoSeeds ==
  (LayoutDone /\ Len(call.seeds) = 2 /\ CallMode = "auto") =>
    LET d == SeedDistance(call.seeds[1], call.seeds[2])
    IN  /\ result.split.distance = d
        /\ (d < AutoSingleBelow => IsSingleMap(result))
        /\ (d >= AutoSingleBelow => IsSplitTwoWay(result))

\* Two seeds exactly 30 apart, decided in Auto mode: a two-way split.
C1_Witness ==
  /\ LayoutDone /\ Len(call.seeds) = 2 /\ CallMode = "auto"
  /\ SeedDistance(call.seeds[1], call.seeds[2]) = AutoSingleBelow
  /\ IsSplitTwoWay(result)

\* C7: for two seeds a forced mode overrides the distance rule: Single gives
\* SingleMap carrying the distance even at 30 or more, Split gives
\* SplitTwoWay with splitPercentage 50 even below 30.
C7_ForcedModeTwoSeeds ==
  (LayoutDone /\ Len(call.seeds) = 2) =>
    LET d == SeedDistance(call.seeds[1], call.seeds[2])
    IN  /\ CallMode = "single" =>
             (IsSingleMap(result) /\ result.split.distance = d)
        /\ CallMode = "split" => IsSplitTwoWay(result)

\* Two seeds closer than 30 split on request.
C7_Witness ==
  /\ LayoutDone /\ Len(call.seeds) = 2 /\ CallMode = "split"
  /\ SeedDistance(call.seeds[1], call.seeds[2]) < AutoSingleBelow
  /\ SeedDistance(call.seeds[1], call.seeds[2]) > 0
  /\ IsSplitTwoWay(result)

\* C8: one seed gives SingleMap with distance 0 in every mode.
C8_OneSeed ==
  (LayoutDone /\ Len(call.seeds) = 1) =>
    (IsSingleMap(result) /\ result.split.distance = 0)

\* One seed decided with Split forced.
C8_Witness ==
  /\ LayoutDone /\ Len(call.seeds) = 1 /\ CallMode = "split"
  /\ IsSingleMap(result)

\* C9: three or more seeds in mode Split give Grid, one cell per seed, and
\* the grid branch is the one rendered.
C9_SplitManySeeds ==
  (LayoutDone /\ Len(call.seeds) >= 3 /\ CallMode = "split") =>
    IsGrid(result, Len(call.seeds))

\* Three seeds, Split forced through the override argument.
C9_Witness ==
  /\ LayoutDone /\ Len(call.seeds) >= 3 /\ call.overrideMode = "split"
  /\ result.rendered.view = "grid"

\* C10: three or more seeds in mode Single give SingleMap with distance 0,
\* whatever the pairwise distances.
C10_SingleManySeeds ==
  (LayoutDone /\ Len(call.seeds) >= 3 /\ CallMode = "single") =>
    (IsSingleMap(result) /\ result.split.distance = 0)

\* Three seeds, two of them 505 apart, on a single map.
C10_Witness ==
  /\ LayoutDone /\ Len(call.seeds) >= 3 /\ CallMode = "single"
  /\ \E i, j \in DOMAIN call.seeds :
       SeedDistance(call.seeds[i], call.seeds[j]) > AutoSingleBelow
  /\ IsSingleMap(result)

(* ======================= properties of the search ====================== *)

SearchDone == done /\ call.op = "search"

\* A reference record lies within the radius of the seed (closed interval).
Covers(seed, record, radiusInMiles) ==
  Abs(record.lat - seed.lat) <= radiusInMiles

\* C5: the search result is exactly the set of reference records within the
\* radius of at least one seed; a record at distance exactly the radius is
\* in it, a record farther than the radius from every seed is not.
C5_SearchIsUnionOfDiscs ==
  SearchDone =>
    /\ Range(result.zipCodesInRadius) =
         { r \in Range(call.zipCodeDatabase) :
             \E i \in DOMAIN call.seeds : Covers(call.seeds[i], r, call.radius) }
    /\ Range(result.foundZipCodes) =
         { r.zipCode : r \in
             { q \in Range(call.zipCodeDatabase) :
                 \E i \in DOMAIN call.seeds :
                   Covers(call.seeds[i], q, call.radius) } }

\* A search whose result holds a record at distance exactly the radius from
\* its nearest seed, and leaves out a record of the dataset.
C5_Witness ==
  /\ SearchDone
  /\ \E r \in Range(result.zipCodesInRadius) :
       /\ \E i \in DOMAIN call.seeds :
            Abs(r.lat - call.seeds[i].lat) = call.radius
       /\ \A i \in DOMAIN call.seeds :
            Abs(r.lat - call.seeds[i].lat) >= call.radius
  /\ \E r \in Range(call.zipCodeDatabase) :
       r \notin Range(result.zipCodesInRadius)

\* C6: the search result holds each record label at most once, also when
\* the record lies within the radius of two or more seeds.
C6_LabelsAtMostOnce ==
  SearchDone =>
    \A i, j \in DOMAIN result.foundZipCodes :
      result.foundZipCodes[i] = result.foundZipCodes[j] => i = j

\* A found record that lies within the radius of two seeds at different
\* places.
C6_Witness ==
  /\ SearchDone
  /\ \E k \in DOMAIN result.zipCodesInRadius :
       \E i, j \in DOMAIN call.seeds :
         /\ call.seeds[i] # call.seeds[j]
         /\ Covers(call.seeds[i], result.zipCodesInRadius[k], call.radius)
         /\ Covers(call.seeds[j], result.zipCodesInRadius[k], call.radius)

(* ============ the layout decision and the clustering of seeds ========== *)

\* The clustering threshold of the layout decision, the same 30.
ClusterThreshold == AutoSingleBelow

Clusters == ConnectedComponents(call.seeds, ClusterThreshold)

AutoManySeeds == LayoutDone /\ Len(call.seeds) >= 3 /\ CallMode = "auto"

\* The seed list the specification expects: no seed entered twice.
DistinctSeeds ==
  \A i, j \in DOMAIN call.seeds : call.seeds[i] = call.seeds[j] => i = j

MaxOf(S) == CHOOSE x \in S : \A y \in S : y <= x

MaxPairwiseDistance(seeds) ==
  MaxOf({ SeedDistance(seeds[i], seeds[j]) : i, j \in DOMAIN seeds })

C15_NoSeedsNoPlan ==
  LayoutDone /\ call.seeds = << >> =>
    /\ result.split = NullSplit
    /\ result.rendered.view = "default"
    /\ ~IsSingleMap(result) /\ ~IsSplitTwoWay(result) /\ ~IsGrid(result, 0)

C15_Witness ==
  /\ LayoutDone /\ call.seeds = << >> /\ CallMode = "split"
  /\ result.split = NullSplit

\* C17: createCircle returns a ring of exactly points + 1 positions (65
\* when the argument is left out) whose last position is identical to its
\* first.
C17_ClosedRing ==
  done /\ call.op = "circle" =>
    /\ Len(result.ring) = pointsOf(call.points) + 1
    /\ call.points = << >> => Len(result.ring) = 65
    /\ result.ring[Len(result.ring)] = result.ring[1]

C17_Witness ==
  /\ done /\ call.op = "circle" /\ call.points = << >>
  /\ Len(result.ring) = 65
  /\ result.ring[65] = result.ring[1]
  /\ result.ring[2] # result.ring[1]

MaxFields == 2

\* Most setTimeout chains pending at once (how fast the user clicks).
MaxChains == 2

(* ------------------------- the text of the input ---------------------- *)

\* A field is the list of its characters.  The text is the list of its
\* fields, that is `seedZipCodes.split(',')`, which is never empty.
Fields ==
  { <<"A">>, <<" ", "B", " ">>, <<"X">>, <<" ">> }

Texts == UNION { [1..n -> Fields] : n \in 1..MaxFields }

RECURSIVE trimStart(_)
trimStart(field) ==
  IF field # << >> /\ Head(field) = " " THEN trimStart(Tail(field))
  ELSE field

RECURSIVE trimEnd(_)
trimEnd(field) ==
  IF field # << >> /\ field[Len(field)] = " "
  THEN trimEnd(SubSeq(field, 1, Len(field) - 1))
  ELSE field

\* String.prototype.trim.
trim(field) == trimEnd(trimStart(field))

\* `!seedZipCodes.trim()`: the whole text is blank.  A text with a comma
\* in it is not.
textIsBlank(text) == Len(text) = 1 /\ trim(text[1]) = << >>

\* `seedZipCodes.split(',').map(zip => zip.trim()).filter(zip =>
\* zip.length > 0)`.
parseZipCodeList(text) ==
  SelectSeq([i \in DOMAIN text |-> trim(text[i])], LAMBDA zip : Len(zip) > 0)

(* ------------------------------ geocoding ----------------------------- *)

\* `return null` of getZipCodeCoordinates.
NoCoordinates == [located |-> FALSE]

\* What the geocoding service knows: the centre of the first feature for
\* the label, no feature for any other label.
geocoded(zipCode) ==
  CASE zipCode = <<"A">> -> [lat |-> 0, lng |-> 0]
    [] zipCode = <<"B">> -> [lat |-> 5, lng |-> 0]
    [] OTHER -> NoCoordinates

\* getZipCodeCoordinates: the coordinates the service has for the label,
\* or null when it has none.  A request that fails returns null as well
\* (the catch block): it is a label the service has no feature for.
getZipCodeCoordinates(zipCode) == geocoded(zipCode)

\* `{ zipCode, ...coords }`.
seedOf(zipCode, coords) ==
  [zipCode |-> zipCode, lat |-> coords.lat, lng |-> coords.lng]

(* -------------------------------- zoom -------------------------------- *)

\* `Math.max(...)` over the distances between the seeds; 0 for one seed.
maxDistanceOf(seeds) ==
  IF Len(seeds) > 1
  THEN MaxOf({ calculateDistance(seeds[i].lat, seeds[i].lng,
                                 seeds[j].lat, seeds[j].lng) :
                 i \in DOMAIN seeds, j \in DOMAIN seeds })
  ELSE 0

\* calculateZoomLevel: the zoom for the distance to show, the largest
\* distance between two seeds plus the diameter of the radius circle.
calculateZoomLevel(seeds, radiusInMiles) ==
  LET totalViewDistance == maxDistanceOf(seeds) + radiusInMiles * 2
  IN  IF totalViewDistance < 10 THEN 12
      ELSE IF totalViewDistance < 25 THEN 10
      ELSE IF totalViewDistance < 50 THEN 9
      ELSE IF totalViewDistance < 100 THEN 8
      ELSE 7

\* Positions the radius slider is moved to.
SliderPositions == { InitialRadius, 30 }

(* ----------------------------- maps.current --------------------------- *)

Min(a, b) == IF a < b THEN a ELSE b

\* initializeSingleMap: every map removed, one map on mapRefs.current[0]
\* for all the seeds.
initializeSingleMap(seeds, radiusInMiles) ==
  << [shows |-> seeds, zoom |-> calculateZoomLevel(seeds, radiusInMiles),
      circles |-> NoCircles] >>

\* initializeMaps: every map removed, then one map per seed whose
\* container mapRefs.current[index] is rendered.
initializeMaps(seeds, radiusInMiles, containers) ==
  [index \in 1..Min(Len(seeds), containers) |->
     [shows |-> << seeds[index] >>,
      zoom |-> calculateZoomLevel(<< seeds[index] >>, radiusInMiles),
      circles |-> NoCircles]]

\* initializeDefaultMap.
initializeDefaultMap == << DefaultMap >>

\* addRadiusVisualization: on every map the layers of the earlier
\* visualisation are removed and the circles of all the seeds and the
\* markers of the found zip codes are added.
addRadiusVisualization(mapInstances, seeds, radiusInMiles, foundZips) ==
  [index \in DOMAIN mapInstances |->
     [mapInstances[index] EXCEPT
        !.circles = [drawn |-> TRUE, seeds |-> seeds,
                     radiusInMiles |-> radiusInMiles,
                     foundZips |-> foundZips]]]

\* `[seedCoordinates[index]]`: a list of one element, undefined when the
\* list is shorter.
oneSeedList(seeds, index) ==
  IF index <= Len(seeds) THEN << seeds[index] >> ELSE << Undefined >>

\* updateMapZoomForRadius, on the seedCoordinates and forceViewportMode of
\* the render that created it.  The maps have loaded their style.
updateMapZoomForRadius(mapInstances, radiusInMiles, seeds, mode) ==
  IF Len(seeds) = 0 THEN mapInstances
  ELSE IF usesSingleMap(calculateViewportSplit(seeds, Undefined, mode))
  THEN [index \in DOMAIN mapInstances |->
          IF index = 1
          THEN [mapInstances[index] EXCEPT
                  !.zoom = calculateZoomLevel(seeds, radiusInMiles)]
          ELSE mapInstances[index]]
  ELSE [index \in DOMAIN mapInstances |->
          [mapInstances[index] EXCEPT
             !.zoom = calculateZoomLevel(oneSeedList(seeds, index),
                                         radiusInMiles)]]

(* ------------------------- setTimeout chains -------------------------- *)

\* The three nested setTimeout callbacks of a handler, as one chain: its
\* stage is the callback that fires next (1: 100 ms, maps; 2: 1000 ms
\* later, visualisation; 3: 500 ms later, zoom).  The chain keeps the
\* values its callbacks close over.
chainOf(origin, seeds, split, radiusInMiles, zips, renderSeeds, renderMode) ==
  [origin |-> origin, stage |-> 1, seeds |-> seeds, split |-> split,
   radiusInMiles |-> radiusInMiles, zips |-> zips,
   renderSeeds |-> renderSeeds, renderMode |-> renderMode]

\* Timers fire in the order of their deadlines.  Two chains run through
\* the same delays, so the later chain never fires a stage before the
\* earlier chain has fired it; how the stages of different chains
\* interleave otherwise depends on the time between the two handlers.
canFire(i) ==
  \A j \in 1..(i - 1) : timers[j].stage > timers[i].stage

removeAt(seq, i) ==
  [k \in 1..(Len(seq) - 1) |-> IF k < i THEN seq[k] ELSE seq[k + 1]]

advance(i) == [timers EXCEPT ![i].stage = @ + 1]


(* ------------------------------ handlers ------------------------------ *)

Init ==
  /\ call = [op |-> "none"]
  /\ done = FALSE
  /\ result = NoResult
  /\ Mounted

\* `loadZipCodeDatabase().then(data => { zipCodeDatabase = data.zipCodes
\* ... }).catch(console.error)`: the fetch resolves, or it fails and the
\* dataset stays empty.
LoadZipCodeDatabase ==
  /\ databaseLoad = "pending"
  /\ \E outcome \in { "resolved", "rejected" } :
       /\ databaseLoad' = outcome
       /\ zipCodeDatabase' = IF outcome = "resolved" THEN LoadedZipCodes
                             ELSE zipCodeDatabase
  /\ UNCHANGED <<coreVars, radius, foundZipCodes, isLoading, seedCoordinates,
                 mapSplit, forceViewportMode, search, toasts, timers, maps,
                 liveMaps>>

\* Slider onValueChange={setRadius}.
setRadius ==
  /\ \E value \in SliderPositions \ { radius } : radius' = value
  /\ UNCHANGED <<coreVars, zipCodeDatabase, databaseLoad, foundZipCodes,
                 isLoading, seedCoordinates, mapSplit, forceViewportMode,
                 search, toasts, timers, maps, liveMaps>>

\* Variant of modeChangeSplit: the split computed without the override,
\* from the forceViewportMode the handler's render holds.
modeChangeSplitFromState(newMode) ==
  calculateViewportSplit(seedCoordinates, Undefined, forceViewportMode)

\* `calculateViewportSplit(seedCoordinates, newMode)`.
modeChangeSplit(newMode) ==
  calculateViewportSplit(seedCoordinates, newMode, forceViewportMode)

\* RadioGroup onValueChange={handleViewportModeChange}: the synchronous
\* part of the handler, which schedules its chain.
handleViewportModeChange ==
  /\ \E newMode \in Modes \ { forceViewportMode } :
       /\ forceViewportMode' = newMode
       /\ IF Len(seedCoordinates) > 0
          THEN LET split == modeChangeSplit(newMode)
               IN  /\ mapSplit' = split
                   /\ timers' = Append(timers,
                        chainOf("mode", seedCoordinates, split, radius,
                                foundZipCodes, seedCoordinates,
                                forceViewportMode))
          ELSE /\ timers' = Append(timers,
                    chainOf("mode", << >>, NullSplit, radius, << >>,
                            << >>, forceViewportMode))
               /\ UNCHANGED mapSplit
  /\ UNCHANGED <<coreVars, zipCodeDatabase, databaseLoad, radius,
                 foundZipCodes, isLoading, seedCoordinates, search, toasts,
                 maps, liveMaps>>

Toast(title, zipCode) == [title |-> title, zipCode |-> zipCode]

\* Variant of loadingWhenFinished: the flag left as setIsLoading(true)
\* set it.
loadingWhenFinishedLeftSet == TRUE

\* isLoading once handleSearch has finished: `setIsLoading(false)` before
\* each early return of the try block and in the finally block.
loadingWhenFinished == FALSE

\* The Search button (disabled while isLoading or while the text is
\* blank) is clicked with the text in the input: handleSearch up to its
\* first await, or to its return when no label is left after trimming.
handleSearch(text) ==
  /\ ~isLoading
  /\ ~textIsBlank(text)
  /\ LET zipCodeList == parseZipCodeList(text)
          IN  IF zipCodeList = << >>
              THEN /\ toasts' = << Toast("Invalid Input", << >>) >>
                   /\ search' = [pc |-> "returned", text |-> text,
                                 zipCodeList |-> << >>, answers |-> << >>]
                   /\ isLoading' = loadingWhenFinished
              ELSE /\ toasts' = << >>
                   /\ isLoading' = TRUE
                   /\ search' =
                        [pc |-> "resolving", text |-> text,
                         zipCodeList |-> zipCodeList,
                         answers |-> << >>,
                         render |-> [radius |-> radius,
                                     forceViewportMode |-> forceViewportMode,
                                     seedCoordinates |-> seedCoordinates]]
  /\ UNCHANGED <<coreVars, zipCodeDatabase, databaseLoad, radius,
                 foundZipCodes, seedCoordinates, mapSplit, forceViewportMode,
                 timers, maps, liveMaps>>

\* Variant of locatedSeeds: the loop left at the first label that is not
\* located.
RECURSIVE locatedSeedsUntilNull(_, _)
locatedSeedsUntilNull(zipCodeList, answers) ==
  IF zipCodeList = << >> \/ Head(answers) = NoCoordinates THEN << >>
  ELSE << seedOf(Head(zipCodeList), Head(answers)) >>
         \o locatedSeedsUntilNull(Tail(zipCodeList), Tail(answers))

\* Variant of databaseAfterSearch: the matching records taken out of the
\* array, as Array.prototype.splice would.
databaseAfterSearchSpliced(seeds, database, radiusInMiles) ==
  SelectSeq(database,
            LAMBDA zipData :
              \A k \in DOMAIN seeds :
                ~withinRadius(seeds[k], zipData, radiusInMiles))

\* The array zipCodeDatabase after the search block: filter and forEach
\* read it and build new arrays.
databaseAfterSearch(seeds, database, radiusInMiles) == database

\* newSeedCoordinates: the located labels, in the order of the list.
RECURSIVE locatedSeeds(_, _)
locatedSeeds(zipCodeList, answers) ==
  IF zipCodeList = << >> THEN << >>
  ELSE IF Head(answers) = NoCoordinates
       THEN locatedSeeds(Tail(zipCodeList), Tail(answers))
       ELSE << seedOf(Head(zipCodeList), Head(answers)) >>
              \o locatedSeeds(Tail(zipCodeList), Tail(answers))

\* Variant of noneLocated: the search is carried on with an empty list
\* of seeds.
noneLocatedNotTested(newSeedCoordinates) == FALSE

\* `if (newSeedCoordinates.length === 0)`: no label of the list was
\* located and the search is rejected.
noneLocated(newSeedCoordinates) == newSeedCoordinates = << >>

\* An `await getZipCodeCoordinates(zipCode)` of handleSearch returns:
\* the handler runs on to its next await or, after the last label, to its
\* end.
GeocodeReturns ==
  /\ search.pc = "resolving"
  /\ LET zipCode == search.zipCodeList[Len(search.answers) + 1]
     IN
       LET coords == getZipCodeCoordinates(zipCode)
           answers == Append(search.answers, coords)
           reported ==
             IF coords = NoCoordinates
             THEN Append(toasts, Toast("Zip Code Not Found", zipCode))
             ELSE toasts
           newSeedCoordinates == locatedSeeds(search.zipCodeList, answers)
           returned == [pc |-> "returned", text |-> search.text,
                        zipCodeList |-> search.zipCodeList,
                        answers |-> answers]
       IN  IF Len(answers) < Len(search.zipCodeList)
           THEN /\ search' = [search EXCEPT !.answers = answers]
                /\ toasts' = reported
                /\ UNCHANGED <<isLoading, seedCoordinates, mapSplit,
                               foundZipCodes, timers, zipCodeDatabase>>
           ELSE IF noneLocated(newSeedCoordinates)
           THEN /\ search' = returned
                /\ toasts' = Append(reported,
                                    Toast("No Valid Zip Codes", << >>))
                /\ isLoading' = loadingWhenFinished
                /\ UNCHANGED <<seedCoordinates, mapSplit, foundZipCodes,
                               timers, zipCodeDatabase>>
           ELSE LET split == calculateViewportSplit(
                               newSeedCoordinates, Undefined,
                               search.render.forceViewportMode)
                    radiusInMiles == search.render.radius
                    found == zipCodesInRadius(newSeedCoordinates,
                                              zipCodeDatabase, radiusInMiles)
                IN  /\ search' = returned
                    /\ zipCodeDatabase' =
                         databaseAfterSearch(newSeedCoordinates,
                                             zipCodeDatabase, radiusInMiles)
                    /\ seedCoordinates' = newSeedCoordinates
                    /\ mapSplit' = split
                    /\ foundZipCodes' = zipCodesOf(found)
                    /\ timers' = Append(timers,
                         chainOf("search", newSeedCoordinates, split,
                                 radiusInMiles, zipCodesOf(found),
                                 search.render.seedCoordinates,
                                 search.render.forceViewportMode))
                    /\ toasts' = Append(reported,
                                        Toast("Search Complete!", << >>))
                    /\ isLoading' = loadingWhenFinished
  /\ UNCHANGED <<coreVars, databaseLoad, radius, forceViewportMode, maps,
                 liveMaps>>

\* Variant of removeListedMaps: the list is emptied and none of its maps
\* is removed.
removeListedMapsSkipped(mapInstances) == 0

\* `maps.current.forEach(map => { if (map && map.remove) map.remove() });
\* maps.current = []` at the head of initializeMaps, initializeSingleMap
\* and initializeDefaultMap: the number of instances removed.
removeListedMaps(mapInstances) == Len(mapInstances)

\* The first callback of a chain (100 ms): the maps are created anew in
\* the containers of the view rendered by then.  After a search the
\* visualisation is scheduled; after a mode change it is scheduled when
\* there are found zip codes, and no callback follows otherwise.
InitializeMapsTimer ==
  \E i \in DOMAIN timers :
    LET chain == timers[i]
        containers == renderedView(seedCoordinates, mapSplit).containers
    IN  /\ chain.stage = 1
        /\ canFire(i)
        /\ maps' = IF chain.seeds = << >> THEN initializeDefaultMap
                   ELSE IF usesSingleMap(chain.split)
                   THEN initializeSingleMap(chain.seeds, chain.radiusInMiles)
                   ELSE initializeMaps(chain.seeds, chain.radiusInMiles,
                                       containers)
        /\ liveMaps' = liveMaps - removeListedMaps(maps) + Len(maps')
        /\ timers' =
             IF chain.origin = "search" THEN advance(i)
             ELSE IF chain.seeds # << >> /\ Len(chain.zips) > 0
             THEN [advance(i) EXCEPT ![i].zips =
                     SelectSeq(chain.zips,
                       LAMBDA zipCode :
                         \E z \in Range(zipCodeDatabase) :
                           z.zipCode = zipCode)]
             ELSE removeAt(timers, i)
        /\ UNCHANGED <<coreVars, zipCodeDatabase, databaseLoad, radius,
                       foundZipCodes, isLoading, seedCoordinates, mapSplit,
                       forceViewportMode, search, toasts>>

\* The second callback (1000 ms later): addRadiusVisualization.
AddRadiusVisualizationTimer ==
  \E i \in DOMAIN timers :
    LET chain == timers[i]
    IN  /\ chain.stage = 2
        /\ canFire(i)
        /\ maps' = addRadiusVisualization(maps, chain.seeds,
                                          chain.radiusInMiles, chain.zips)
        /\ timers' = advance(i)
        /\ UNCHANGED <<coreVars, zipCodeDatabase, databaseLoad, radius,
                       foundZipCodes, isLoading, seedCoordinates, mapSplit,
                       forceViewportMode, search, toasts, liveMaps>>

\* The third callback (500 ms later): updateMapZoomForRadius.
UpdateMapZoomTimer ==
  \E i \in DOMAIN timers :
    LET chain == timers[i]
    IN  /\ chain.stage = 3
        /\ canFire(i)
        /\ maps' = updateMapZoomForRadius(maps, chain.radiusInMiles,
                                          chain.renderSeeds, chain.renderMode)
        /\ timers' = removeAt(timers, i)
        /\ UNCHANGED <<coreVars, zipCodeDatabase, databaseLoad, radius,
                       foundZipCodes, isLoading, seedCoordinates, mapSplit,
                       forceViewportMode, search, toasts, liveMaps>>

(* ---------------------------- specifications ------------------------- *)

\* The user of Spec leaves the slider where it is and waits for the
\* callbacks of the last handler before using the radio group or the
\* Search button again; the radio group is also used while a search is
\* waiting for the geocoder.
ChangeMode == timers = << >> /\ handleViewportModeChange

ClickSearch ==
  /\ timers = << >>
  /\ \E text \in Texts : handleSearch(text)

Next ==
  \/ LoadZipCodeDatabase
  \/ ChangeMode
  \/ ClickSearch
  \/ GeocodeReturns
  \/ InitializeMapsTimer
  \/ AddRadiusVisualizationTimer
  \/ UpdateMapZoomTimer

Spec == Init /\ [][Next]_vars

\* The user of SpecOverlap does not wait: the slider, the radio group and
\* the Search button are used while the callbacks of earlier handlers are
\* pending, as long as fewer than MaxChains chains are.  The radio group
\* is left alone while a search is waiting for the geocoder, and the text
\* holds one field.
MoveSlider == setRadius

ChangeModeEarly ==
  /\ Len(timers) < MaxChains
  /\ ~isLoading
  /\ handleViewportModeChange

ClickSearchEarly ==
  /\ Len(timers) < MaxChains
  /\ \E text \in Texts : Len(text) = 1 /\ handleSearch(text)

NextOverlap ==
  \/ LoadZipCodeDatabase
  \/ MoveSlider
  \/ ChangeModeEarly
  \/ ClickSearchEarly
  \/ GeocodeReturns
  \/ InitializeMapsTimer
  \/ AddRadiusVisualizationTimer
  \/ UpdateMapZoomTimer

SpecOverlap == Init /\ [][NextOverlap]_vars

(* ===================== properties of the component ===================== *)

\* The step in which handleSearch, all labels answered, runs its search
\* block and schedules its callbacks.
SearchEvaluated ==
  /\ search.pc = "resolving"
  /\ search'.pc = "returned"
  /\ Len(timers') = Len(timers) + 1

\* C12: the reference dataset is loaded before any search is evaluated:
\* no search block runs against the dataset as it is before the load
\* resolves.
C12_DatasetLoadedBeforeSearch ==
  [][SearchEvaluated => databaseLoad = "resolved"]_vars

\* The seeds a map was created for are among the seeds its circles are
\* drawn around.
CirclesOfOwnSeeds(mapInstance) ==
  mapInstance.circles.drawn =>
    Range(mapInstance.shows) \subseteq Range(mapInstance.circles.seeds)

\* C13: invocations are independent: the callbacks an earlier search
\* left pending do not change what the maps of a later search display;
\* the circles on a map are those of the invocation that created it.
C13_InvocationsIndependent ==
  \A index \in DOMAIN maps : CirclesOfOwnSeeds(maps[index])

\* The field without its blanks (no field of Fields has a blank between
\* two other characters).
Unblanked(field) == SelectSeq(field, LAMBDA c : c # " ")

\* The trimmed non-empty labels of the text, in input order.
LabelsOf(text) ==
  SelectSeq([i \in DOMAIN text |-> Unblanked(text[i])],
            LAMBDA label : label # << >>)

Resolves(label) == geocoded(label) # NoCoordinates

NotFoundToasts ==
  SelectSeq(toasts, LAMBDA t : t.title = "Zip Code Not Found")

\* C14: a label that cannot be located is reported, for that label only,
\* and does not abort the batch: the seeds handed on are exactly the
\* labels that resolved, in input order, among the trimmed non-empty
\* labels of the text, and the search proceeds whenever at least one
\* label resolved.
C14_UnresolvedLabelIsSkipped ==
  search.pc = "returned" =>
    LET labels == LabelsOf(search.text)
        resolved == SelectSeq(labels, Resolves)
        unresolved == SelectSeq(labels, LAMBDA label : ~Resolves(label))
    IN  /\ NotFoundToasts =
             [i \in DOMAIN unresolved |->
                Toast("Zip Code Not Found", unresolved[i])]
        /\ resolved # << >> =>
             /\ seedCoordinates =
                  [i \in DOMAIN resolved |->
                     seedOf(resolved[i], geocoded(resolved[i]))]
             /\ mapSplit # NullSplit
             /\ toasts[Len(toasts)].title = "Search Complete!"
             /\ ~isLoading
        /\ resolved = << >> =>
             toasts[Len(toasts)].title
               \in { "No Valid Zip Codes", "Invalid Input" }

C14_Witness ==
  /\ search.pc = "returned"
  /\ search.text = << <<"X">>, <<" ", "B", " ">> >>
  /\ seedCoordinates = << seedOf(<<"B">>, [lat |-> 5, lng |-> 0]) >>
  /\ toasts = << Toast("Zip Code Not Found", <<"X">>),
                 Toast("Search Complete!", << >>) >>

\* C16: no search, layout decision, mode change or visualisation step
\* changes the reference dataset: it changes only when its load resolves.
C16_DatasetOnlySetByLoad ==
  [][zipCodeDatabase' # zipCodeDatabase =>
       /\ databaseLoad = "pending"
       /\ databaseLoad' = "resolved"
       /\ UNCHANGED <<seedCoordinates, mapSplit, foundZipCodes, timers,
                      maps, search>>]_vars

C16_Witness ==
  /\ zipCodeDatabase = LoadedZipCodes
  /\ search.pc = "returned"
  /\ foundZipCodes # << >>
  /\ forceViewportMode # "auto"
  /\ timers = << >>
  /\ \E index \in DOMAIN maps : maps[index].circles.drawn

\* The zoom the maps of a search are to have: computed from all its
\* seeds on a single map, from the map's own seed otherwise.
ZoomOf(chain, index) ==
  IF usesSingleMap(chain.split)
  THEN calculateZoomLevel(chain.seeds, chain.radiusInMiles)
  ELSE calculateZoomLevel(<< chain.seeds[index] >>, chain.radiusInMiles)

\* The zoom callback of a search fires with nothing else in progress.
SearchZoomUpdated ==
  /\ Len(timers) = 1
  /\ timers[1].origin = "search"
  /\ timers[1].stage = 3
  /\ timers' = << >>
  /\ search.pc # "resolving"

\* C19: the deferred zoom update of a search leaves every map at the zoom
\* computed from that search's own seeds and radius.
C19_ZoomFromOwnSeeds ==
  [][SearchZoomUpdated =>
       \A index \in DOMAIN maps' :
         maps'[index].zoom = ZoomOf(timers[1], index)]_vars

\* The maps a plan asks for: one map with all the seeds, or maps of one
\* seed each, for every seed when the view rendered is that of the plan.
MapsFollow(mapInstances, seeds, plan) ==
  IF usesSingleMap(plan)
  THEN Len(mapInstances) = 1 /\ mapInstances[1].shows = seeds
  ELSE /\ Len(mapInstances) \in 1..Len(seeds)
       /\ \A index \in DOMAIN mapInstances :
            mapInstances[index].shows = << seeds[index] >>
       /\ (seedCoordinates = seeds /\ mapSplit = plan
             => Len(mapInstances) = Len(seeds))

\* The radio group selects another mode while there are seeds.
ModeChanged ==
  forceViewportMode' # forceViewportMode /\ seedCoordinates # << >>

\* The first callback of a mode change fires.
ModeMapsInitialized ==
  /\ timers # << >>
  /\ timers[1].origin = "mode"
  /\ timers[1].stage = 1
  /\ timers[1].seeds # << >>
  /\ timers' # timers
  /\ Len(timers') <= Len(timers)

\* C20: when the mode is changed while seeds are present, the plan stored
\* is the one computed for the newly selected mode, and the maps are
\* initialised again as that plan asks.
C20_PlanOfNewMode ==
  [][/\ ModeChanged =>
          LET plan == calculateViewportSplit(seedCoordinates, Undefined,
                                             forceViewportMode')
          IN  /\ mapSplit' = plan
              /\ timers'[Len(timers')].split = plan
              /\ timers'[Len(timers')].seeds = seedCoordinates
     /\ ModeMapsInitialized =>
          MapsFollow(maps', timers[1].seeds,
                     calculateViewportSplit(timers[1].seeds, Undefined,
                                            forceViewportMode))]_vars

C20_Witness ==
  /\ Len(timers) = 1
  /\ timers[1].origin = "mode"
  /\ timers[1].stage = 2
  /\ timers[1].renderMode = "auto"
  /\ forceViewportMode = "split"
  /\ Len(seedCoordinates) = 2
  /\ SeedDistance(seedCoordinates[1], seedCoordinates[2]) < AutoSingleBelow
  /\ seedCoordinates[1] # seedCoordinates[2]
  /\ IsSplitTwoWay([split |-> mapSplit,
                    rendered |-> renderedView(seedCoordinates, mapSplit)])
  /\ Len(maps) = 2
  /\ maps[1].shows = << seedCoordinates[1] >>
  /\ maps[2].shows = << seedCoordinates[2] >>

\* C22: whenever seeds are present and no search is in flight, the stored
\* plan is the layout decision for the current seeds under the mode
\* currently selected, however searches and mode changes interleave.
C22_PlanOfCurrentMode ==
  seedCoordinates # << >> /\ search.pc # "resolving" =>
    mapSplit = calculateViewportSplit(seedCoordinates, Undefined,
                                      forceViewportMode)

\* The zip codes marked on a map are those of the dataset within the
\* radius of the circles drawn on it.
MarkersWithinCircles(mapInstance) ==
  mapInstance.circles.drawn /\ mapInstance.circles.foundZips # << >> =>
    mapInstance.circles.foundZips =
      zipCodesOf(zipCodesInRadius(mapInstance.circles.seeds, LoadedZipCodes,
                                  mapInstance.circles.radiusInMiles))

\* C23: the radius of the circles drawn on the maps is the radius the
\* displayed found zip codes were computed with: the zip codes marked are
\* those within the circles, also after the slider is moved and the mode
\* is then changed without a new search.
C23_CirclesOfSearchRadius ==
  \A index \in DOMAIN maps : MarkersWithinCircles(maps[index])

\* A step in which handleSearch rejects the text: no label is left after
\* parsing, or none of the labels is located.
SearchRejected ==
  /\ search' # search
  /\ search'.pc = "returned"
  /\ SelectSeq(LabelsOf(search'.text), Resolves) = << >>

\* C21: a rejected search leaves the seeds, the plan and the found zip
\* codes of the previous search as they were, initialises no map and
\* schedules no timer.
C21_RejectedSearchChangesNothing ==
  [][SearchRejected =>
       UNCHANGED <<seedCoordinates, mapSplit, foundZipCodes, maps, timers>>]_vars

\* A search was rejected after an earlier one had succeeded: the results
\* of the earlier one are still there.
C21_Witness ==
  /\ search.pc = "returned"
  /\ SelectSeq(LabelsOf(search.text), Resolves) = << >>
  /\ LabelsOf(search.text) # << >>
  /\ seedCoordinates # << >>
  /\ foundZipCodes # << >>
  /\ mapSplit # NullSplit
  /\ timers = << >>
  /\ \A index \in DOMAIN maps : maps[index].circles.drawn

\* The step of GeocodeReturns as the handler's position shows it: the
\* pending await returns and the answer is taken.
AwaitReturns ==
  /\ search.pc = "resolving"
  /\ LET zipCode == search.zipCodeList[Len(search.answers) + 1]
         answers == Append(search.answers, getZipCodeCoordinates(zipCode))
     IN  search' = IF Len(answers) < Len(search.zipCodeList)
                   THEN [search EXCEPT !.answers = answers]
                   ELSE [pc |-> "returned", text |-> search.text,
                         zipCodeList |-> search.zipCodeList,
                         answers |-> answers]

\* The user of SpecFair only searches, one search after the callbacks of
\* the one before.
NextSearching ==
  \/ LoadZipCodeDatabase
  \/ ClickSearch
  \/ GeocodeReturns
  \/ InitializeMapsTimer
  \/ AddRadiusVisualizationTimer
  \/ UpdateMapZoomTimer

\* The geocoder answers: the fetch of getZipCodeCoordinates settles, and a
\* failed one is caught and returns null, so every await of handleSearch
\* returns.
SpecFair == Init /\ [][NextSearching]_vars /\ WF_search(AwaitReturns)

MapsInitialized == \A i \in DOMAIN timers : timers[i].stage > 1

====
